---- MODULE Spec2Model ----
(***************************************************************************)
(* PS/2 Scan Code Set 2 decoder of converter/ps2_usb/matrix.c.             *)
(*                                                                         *)
(* The model is the build of matrix.c with neither EXTRA_BUTTONS_ENABLE    *)
(* nor THUMBSTICK_ENABLE defined: the decoder and the key matrix.          *)
(* One step of the model is one call of a public function: matrix_scan     *)
(* (a tick), matrix_init or matrix_clear.                                  *)
(***************************************************************************)
EXTENDS Integers, Sequences, FiniteSets

(***************************************************************************)
(* Bounds of the model.                                                    *)
(***************************************************************************)
\* the keyboard never holds more than MaxKeys keys down at once
MaxKeys == 2
\* longest run of bytes, counted from the idle state, that is remembered
MaxSeq == 8

(***************************************************************************)
(* Program constants.                                                      *)
(***************************************************************************)
MATRIX_ROWS == 32
F7 == \h83
PRINT_SCREEN == \hFC
PAUSE == \hFE

\* Bytes the transport delivers: every byte some case label of matrix_scan
\* names, the coordinate of the pause key, both sides of the "code < 0x80"
\* test (0x7E, 0x80), and ordinary key codes (0x03, whose extended
\* coordinate is that of F7, and 0x7C, whose extended form is PrintScreen).
Bytes ==
    { \h00, \h12, \h14, \h59, \h77, \h7E, \h83, \h84, \hAA, \hFC,
      \hE0, \hE1, \hF0,
      \h03, \h7C, \h80, \hFE }

States ==
    { "INIT", "F0", "E0", "E0_F0",
      "E1", "E1_14", "E1_14_77", "E1_14_77_E1", "E1_14_77_E1_F0",
      "E1_14_77_E1_F0_14", "E1_14_77_E1_F0_14_F0",
      "E0_7E", "E0_7E_E0", "E0_7E_E0_F0" }

VARIABLES
    matrix,                 \* static uint8_t matrix[MATRIX_ROWS]
    is_modified,            \* static bool is_modified
    state,                  \* static enum state of matrix_scan
    code,                   \* the byte ps2_host_recv returned to the last tick
    ps2_error,              \* the transport's error flag at the last tick
    rx,                     \* what the transport had for the last tick
    clear_keyboard_calls,   \* calls of clear_keyboard() made by the last step
    led_set_calls,          \* calls of led_set(host_keyboard_leds()) made by the last step
    last,                   \* the public function the last step called
    seq,                    \* bytes consumed on consecutive error-free ticks,
                            \* the first of them in the idle state
    matrix0,                \* the matrix before the first byte of seq
    prev,                   \* the make or break sequence (c, E0 c, F0 c,
                            \* E0 F0 c) delivered just before seq, as long as
                            \* seq repeats it
    pause_run,              \* the error-free bytes consumed since idle, as
                            \* long as they spell the start of a pause sequence
    events,                 \* the make, break and clear events the last step
                            \* processed, in order
    held                    \* the coordinates whose most recent event is a
                            \* make, a clear counting as an event of every
                            \* coordinate

vars == << matrix, is_modified, state, code, ps2_error, rx,
           clear_keyboard_calls, led_set_calls, last, seq, matrix0,
           prev, pause_run, events, held >>

(***************************************************************************)
(* Bit arithmetic on uint8_t.                                              *)
(***************************************************************************)
Pow2(n) == CASE n = 0 -> 1 [] n = 1 -> 2 [] n = 2 -> 4 [] n = 3 -> 8
             [] n = 4 -> 16 [] n = 5 -> 32 [] n = 6 -> 64 [] n = 7 -> 128

Bit(b, n) == (b \div Pow2(n)) % 2

\* code | 0x80
Or80(c) == IF Bit(c, 7) = 1 THEN c ELSE c + \h80

ROW(c) == c \div 8

COL(c) == c % 8

ZeroMatrix == [i \in 0 .. (MATRIX_ROWS - 1) |-> 0]

matrix_is_on(m, row, col) == Bit(m[row], col) # 0

RECURSIVE bitpop(_)
bitpop(b) == IF b = 0 THEN 0 ELSE (b % 2) + bitpop(b \div 2)

RECURSIVE SumRows(_, _)
SumRows(m, i) ==
    IF i = MATRIX_ROWS THEN 0 ELSE bitpop(m[i]) + SumRows(m, i + 1)

\* matrix_key_count with the loop starting at row 1
matrix_key_count_from1(m) == SumRows(m, 1) % 256

\* uint8_t count
matrix_key_count(m) == SumRows(m, 0) % 256

(***************************************************************************)
(* The working state of one call: c.matrix, c.is_modified, c.state and the *)
(* collaborator calls made so far, c.clear_keyboard and c.led_set.         *)
(* c.events lists the calls of matrix_make, matrix_break and matrix_clear  *)
(* made so far.                                                            *)
(***************************************************************************)
Event(c, op, k) == [c EXCEPT !.events = Append(@, << op, k >>)]

\* matrix_make setting is_modified whether or not the bit changes
matrix_make_always(c, k) ==
    IF ~ matrix_is_on(c.matrix, ROW(k), COL(k))
    THEN [Event(c, "make", k) EXCEPT !.matrix[ROW(k)] = @ + Pow2(COL(k)),
                                     !.is_modified = TRUE]
    ELSE [Event(c, "make", k) EXCEPT !.is_modified = TRUE]

\* matrix_make assigning the bit to the row instead of or-ing it in
matrix_make_assign(c, k) ==
    IF ~ matrix_is_on(c.matrix, ROW(k), COL(k))
    THEN [Event(c, "make", k) EXCEPT !.matrix[ROW(k)] = Pow2(COL(k)),
                                     !.is_modified = TRUE]
    ELSE Event(c, "make", k)

matrix_make(c, k) ==
    IF ~ matrix_is_on(c.matrix, ROW(k), COL(k))
    THEN [Event(c, "make", k) EXCEPT !.matrix[ROW(k)] = @ + Pow2(COL(k)),
                                     !.is_modified = TRUE]
    ELSE Event(c, "make", k)

matrix_break(c, k) ==
    IF matrix_is_on(c.matrix, ROW(k), COL(k))
    THEN [Event(c, "break", k) EXCEPT !.matrix[ROW(k)] = @ - Pow2(COL(k)),
                                      !.is_modified = TRUE]
    ELSE Event(c, "break", k)

\* matrix_clear with the loop stopping one row short
matrix_clear_short(c) ==
    [c EXCEPT !.matrix =
        [i \in 0 .. (MATRIX_ROWS - 1) |->
            IF i < MATRIX_ROWS - 1 THEN 0 ELSE c.matrix[i]]]

matrix_clear(c) == [Event(c, "clear", 0) EXCEPT !.matrix = ZeroMatrix]

clear_keyboard(c) == [c EXCEPT !.clear_keyboard = @ + 1]

led_set(c) == [c EXCEPT !.led_set = @ + 1]

SetState(c, s) == [c EXCEPT !.state = s]

\* matrix_clear(); clear_keyboard(); of the overrun and unexpected-code branches
ClearAll(c) == clear_keyboard(matrix_clear(c))

(***************************************************************************)
(* matrix_scan: one case of the switch per operator.                       *)
(***************************************************************************)
\* matrix_scan without the pseudo break
PseudoBreak_none(c) == c

\* 'pseudo break code' hack
PseudoBreak(c) ==
    IF matrix_is_on(c.matrix, ROW(PAUSE), COL(PAUSE))
    THEN matrix_break(c, PAUSE)
    ELSE c

\* case INIT without the case label 0xFC
scan_INIT_onlyAA(c, b) ==
    CASE b = \hE0 -> SetState(c, "E0")
      [] b = \hF0 -> SetState(c, "F0")
      [] b = \hE1 -> SetState(c, "E1")
      [] b = \h83 -> SetState(matrix_make(c, F7), "INIT")
      [] b = \h84 -> SetState(matrix_make(c, PRINT_SCREEN), "INIT")
      [] b = \h00 -> SetState(ClearAll(c), "INIT")
      [] b = \hAA -> SetState(led_set(c), "INIT")
      [] OTHER ->
            IF b < \h80
            THEN SetState(matrix_make(c, b), "INIT")
            ELSE SetState(ClearAll(c), "INIT")

\* case INIT making the key at the byte 0x84 itself
scan_INIT_84(c, b) ==
    CASE b = \hE0 -> SetState(c, "E0")
      [] b = \hF0 -> SetState(c, "F0")
      [] b = \hE1 -> SetState(c, "E1")
      [] b = \h83 -> SetState(matrix_make(c, F7), "INIT")
      [] b = \h84 -> SetState(matrix_make(c, \h84), "INIT")
      [] b = \h00 -> SetState(ClearAll(c), "INIT")
      [] b \in {\hAA, \hFC} -> SetState(led_set(c), "INIT")
      [] OTHER ->
            IF b < \h80
            THEN SetState(matrix_make(c, b), "INIT")
            ELSE SetState(ClearAll(c), "INIT")

scan_INIT(c, b) ==
    CASE b = \hE0 -> SetState(c, "E0")
      [] b = \hF0 -> SetState(c, "F0")
      [] b = \hE1 -> SetState(c, "E1")
      [] b = \h83 -> SetState(matrix_make(c, F7), "INIT")
      [] b = \h84 -> SetState(matrix_make(c, PRINT_SCREEN), "INIT")
      [] b = \h00 -> SetState(ClearAll(c), "INIT")
      [] b \in {\hAA, \hFC} -> SetState(led_set(c), "INIT")
      [] OTHER ->
            IF b < \h80
            THEN SetState(matrix_make(c, b), "INIT")
            ELSE SetState(ClearAll(c), "INIT")

\* case E0 making the key at the code without bit 7
scan_E0_plain(c, b) ==
    CASE b \in {\h12, \h59} -> SetState(c, "INIT")
      [] b = \h7E -> SetState(c, "E0_7E")
      [] b = \hF0 -> SetState(c, "E0_F0")
      [] OTHER ->
            IF b < \h80
            THEN SetState(matrix_make(c, b), "INIT")
            ELSE SetState(ClearAll(c), "INIT")

\* case E0 without the case labels 0x12 and 0x59
scan_E0_shift(c, b) ==
    CASE b = \h7E -> SetState(c, "E0_7E")
      [] b = \hF0 -> SetState(c, "E0_F0")
      [] OTHER ->
            IF b < \h80
            THEN SetState(matrix_make(c, Or80(b)), "INIT")
            ELSE SetState(ClearAll(c), "INIT")

\* case E0 without the case label 0x7E
scan_E0_no7E(c, b) ==
    CASE b \in {\h12, \h59} -> SetState(c, "INIT")
      [] b = \hF0 -> SetState(c, "E0_F0")
      [] OTHER ->
            IF b < \h80
            THEN SetState(matrix_make(c, Or80(b)), "INIT")
            ELSE SetState(ClearAll(c), "INIT")

scan_E0(c, b) ==
    CASE b \in {\h12, \h59} -> SetState(c, "INIT")
      [] b = \h7E -> SetState(c, "E0_7E")
      [] b = \hF0 -> SetState(c, "E0_F0")
      [] OTHER ->
            IF b < \h80
            THEN SetState(matrix_make(c, Or80(b)), "INIT")
            ELSE SetState(ClearAll(c), "INIT")

\* case F0 breaking the key at the extended coordinate
scan_F0_ext(c, b) ==
    CASE b = \h83 -> SetState(matrix_break(c, F7), "INIT")
      [] b = \h84 -> SetState(matrix_break(c, PRINT_SCREEN), "INIT")
      [] b = \hF0 -> ClearAll(c)
      [] OTHER ->
            IF b < \h80
            THEN SetState(matrix_break(c, Or80(b)), "INIT")
            ELSE SetState(ClearAll(c), "INIT")

\* case F0 going back to INIT on a second 0xF0
scan_F0_idle(c, b) ==
    CASE b = \h83 -> SetState(matrix_break(c, F7), "INIT")
      [] b = \h84 -> SetState(matrix_break(c, PRINT_SCREEN), "INIT")
      [] b = \hF0 -> SetState(ClearAll(c), "INIT")
      [] OTHER ->
            IF b < \h80
            THEN SetState(matrix_break(c, b), "INIT")
            ELSE SetState(ClearAll(c), "INIT")

scan_F0(c, b) ==
    CASE b = \h83 -> SetState(matrix_break(c, F7), "INIT")
      [] b = \h84 -> SetState(matrix_break(c, PRINT_SCREEN), "INIT")
      [] b = \hF0 -> ClearAll(c)
      [] OTHER ->
            IF b < \h80
            THEN SetState(matrix_break(c, b), "INIT")
            ELSE SetState(ClearAll(c), "INIT")

\* case E0_F0 dropping an unexpected code without clearing
scan_E0_F0_ignore(c, b) ==
    CASE b \in {\h12, \h59} -> SetState(c, "INIT")
      [] OTHER ->
            IF b < \h80
            THEN SetState(matrix_break(c, Or80(b)), "INIT")
            ELSE SetState(c, "INIT")

\* case E0_F0 breaking the key at the code without bit 7
scan_E0_F0_plain(c, b) ==
    CASE b \in {\h12, \h59} -> SetState(c, "INIT")
      [] OTHER ->
            IF b < \h80
            THEN SetState(matrix_break(c, b), "INIT")
            ELSE SetState(ClearAll(c), "INIT")

scan_E0_F0(c, b) ==
    CASE b \in {\h12, \h59} -> SetState(c, "INIT")
      [] OTHER ->
            IF b < \h80
            THEN SetState(matrix_break(c, Or80(b)), "INIT")
            ELSE SetState(ClearAll(c), "INIT")

\* the Pause states handing a byte they do not expect to case INIT
scan_Pause_reinterpret(c, b) ==
    LET expected ==
            CASE c.state = "E1" -> \h14
              [] c.state = "E1_14" -> \h77
              [] c.state = "E1_14_77" -> \hE1
              [] c.state = "E1_14_77_E1" -> \hF0
              [] c.state = "E1_14_77_E1_F0" -> \h14
              [] c.state = "E1_14_77_E1_F0_14" -> \hF0
        next ==
            CASE c.state = "E1" -> "E1_14"
              [] c.state = "E1_14" -> "E1_14_77"
              [] c.state = "E1_14_77" -> "E1_14_77_E1"
              [] c.state = "E1_14_77_E1" -> "E1_14_77_E1_F0"
              [] c.state = "E1_14_77_E1_F0" -> "E1_14_77_E1_F0_14"
              [] c.state = "E1_14_77_E1_F0_14" -> "E1_14_77_E1_F0_14_F0"
    IN  IF b = expected THEN SetState(c, next) ELSE scan_INIT(c, b)

\* states E1 .. E1_14_77_E1_F0_14: one expected byte, anything else aborts
scan_Pause(c, b) ==
    CASE c.state = "E1" ->
            SetState(c, IF b = \h14 THEN "E1_14" ELSE "INIT")
      [] c.state = "E1_14" ->
            SetState(c, IF b = \h77 THEN "E1_14_77" ELSE "INIT")
      [] c.state = "E1_14_77" ->
            SetState(c, IF b = \hE1 THEN "E1_14_77_E1" ELSE "INIT")
      [] c.state = "E1_14_77_E1" ->
            SetState(c, IF b = \hF0 THEN "E1_14_77_E1_F0" ELSE "INIT")
      [] c.state = "E1_14_77_E1_F0" ->
            SetState(c, IF b = \h14 THEN "E1_14_77_E1_F0_14" ELSE "INIT")
      [] c.state = "E1_14_77_E1_F0_14" ->
            SetState(c, IF b = \hF0 THEN "E1_14_77_E1_F0_14_F0" ELSE "INIT")

scan_Pause_last(c, b) ==
    IF b = \h77
    THEN SetState(matrix_make(c, PAUSE), "INIT")
    ELSE SetState(c, "INIT")

\* the Control'd Pause states without the make of the last state
scan_CtrlPause_nomake(c, b) ==
    CASE c.state = "E0_7E" ->
            SetState(c, IF b = \hE0 THEN "E0_7E_E0" ELSE "INIT")
      [] c.state = "E0_7E_E0" ->
            SetState(c, IF b = \hF0 THEN "E0_7E_E0_F0" ELSE "INIT")
      [] c.state = "E0_7E_E0_F0" ->
            SetState(c, "INIT")

\* states E0_7E, E0_7E_E0, E0_7E_E0_F0
scan_CtrlPause(c, b) ==
    CASE c.state = "E0_7E" ->
            SetState(c, IF b = \hE0 THEN "E0_7E_E0" ELSE "INIT")
      [] c.state = "E0_7E_E0" ->
            SetState(c, IF b = \hF0 THEN "E0_7E_E0_F0" ELSE "INIT")
      [] c.state = "E0_7E_E0_F0" ->
            SetState(IF b = \h7E THEN matrix_make(c, PAUSE) ELSE c, "INIT")

scan_switch(c, b) ==
    CASE c.state = "INIT" -> scan_INIT(c, b)
      [] c.state = "E0" -> scan_E0(c, b)
      [] c.state = "F0" -> scan_F0(c, b)
      [] c.state = "E0_F0" -> scan_E0_F0(c, b)
      [] c.state \in { "E1", "E1_14", "E1_14_77", "E1_14_77_E1",
                       "E1_14_77_E1_F0", "E1_14_77_E1_F0_14" } ->
            scan_Pause(c, b)
      [] c.state = "E1_14_77_E1_F0_14_F0" -> scan_Pause_last(c, b)
      [] c.state \in { "E0_7E", "E0_7E_E0", "E0_7E_E0_F0" } ->
            scan_CtrlPause(c, b)
      [] OTHER -> SetState(c, "INIT")

\* the switch entered whatever ps2_error says
scan_recv_unchecked(c, b, err) == scan_switch(c, b)

\* the switch entered on "if (code)" instead of "if (!ps2_error)"
scan_recv_nonzero(c, b, err) == IF b # 0 THEN scan_switch(c, b) ELSE c

\* if (!ps2_error) switch (state) ...
scan_recv(c, b, err) == IF ~ err THEN scan_switch(c, b) ELSE c

matrix_scan(c, b, err) ==
    scan_recv(PseudoBreak([c EXCEPT !.is_modified = FALSE]), b, err)

(***************************************************************************)
(* The byte transport.  kind is what the transport has for this tick:      *)
(* "byte" (b, received without error), "error" (b, with the error flag     *)
(* raised) or "none" (nothing to receive: 0 is returned and the error flag *)
(* says so).                                                               *)
(***************************************************************************)
ps2_host_recv(kind, b) ==
    [ code |-> IF kind = "none" THEN 0 ELSE b,
      ps2_error |-> kind # "byte" ]

(***************************************************************************)
(* The steps.                                                              *)
(***************************************************************************)
PauseSeq == << \hE1, \h14, \h77, \hE1, \hF0, \h14, \hF0, \h77 >>

CtrlPauseSeq == << \hE0, \h7E, \hE0, \hF0, \h7E >>

\* s is a nonempty proper prefix of t
ProperPrefix(s, t) ==
    /\ s # << >>
    /\ Len(s) < Len(t)
    /\ s = SubSeq(t, 1, Len(s))

\* s is a nonempty prefix of t, or t itself
Prefix(s, t) == s = t \/ ProperPrefix(s, t)

\* s encodes the make or the break of one key
KeySeq(s) ==
    \/ /\ Len(s) = 1
       /\ s[1] \in (1 .. \h7F) \cup {\h83, \h84}
    \/ /\ Len(s) = 2
       /\ s[1] = \hE0
       /\ s[2] \in (0 .. \h7F) \ {\h12, \h59, \h7E}
    \/ /\ Len(s) = 2
       /\ s[1] = \hF0
       /\ s[2] \in (0 .. \h7F) \cup {\h83, \h84}
    \/ /\ Len(s) = 3
       /\ s[1] = \hE0
       /\ s[2] = \hF0
       /\ s[3] \in (0 .. \h7F) \ {\h12, \h59}

\* the coordinates held after the events es, when h were held before
RECURSIVE Replay(_, _)
Replay(h, es) ==
    IF es = << >> THEN h
    ELSE LET e == Head(es)
         IN  Replay(CASE e[1] = "make" -> h \cup {e[2]}
                      [] e[1] = "break" -> h \ {e[2]}
                      [] e[1] = "clear" -> { },
                    Tail(es))

Init ==
    /\ matrix = ZeroMatrix
    /\ is_modified = FALSE
    /\ state = "INIT"
    /\ code = 0
    /\ ps2_error = FALSE
    /\ rx = "none"
    /\ clear_keyboard_calls = 0
    /\ led_set_calls = 0
    /\ last = "matrix_init"
    /\ seq = << >>
    /\ matrix0 = ZeroMatrix
    /\ prev = << >>
    /\ pause_run = << >>
    /\ events = << >>
    /\ held = { }

Call == [ matrix |-> matrix, is_modified |-> is_modified, state |-> state,
          clear_keyboard |-> 0, led_set |-> 0, events |-> << >> ]

\* one call of matrix_scan with transport outcome (kind, b)
Tick(kind, b) ==
    LET r == ps2_host_recv(kind, b)
        c == matrix_scan(Call, r.code, r.ps2_error)
        s == IF kind # "byte" THEN << >>
             ELSE IF state = "INIT" THEN << b >>
             ELSE IF seq = << >> \/ Len(seq) >= MaxSeq THEN << >>
             ELSE Append(seq, b)
    IN  /\ c.matrix # matrix => SumRows(c.matrix, 0) <= MaxKeys
        /\ matrix' = c.matrix
        /\ is_modified' = c.is_modified
        /\ state' = c.state
        /\ code' = r.code
        /\ ps2_error' = r.ps2_error
        /\ rx' = kind
        /\ clear_keyboard_calls' = c.clear_keyboard
        /\ led_set_calls' = c.led_set
        /\ last' = "matrix_scan"
        /\ seq' = s
        /\ matrix0' = IF kind = "byte" /\ state = "INIT" THEN matrix
                      ELSE IF s = << >> THEN c.matrix
                      ELSE matrix0
        /\ prev' = IF kind # "byte" THEN << >>
                   ELSE IF state = "INIT"
                        THEN IF seq # << >> /\ KeySeq(seq) /\ seq[1] = b
                             THEN seq
                             ELSE << >>
                   ELSE IF /\ s # << >>
                           /\ Len(s) <= Len(prev)
                           /\ prev[Len(s)] = b
                        THEN prev
                   ELSE << >>
        /\ pause_run' =
              IF kind # "byte"
              THEN IF state = "INIT" THEN << >> ELSE pause_run
              ELSE LET t == IF state = "INIT" THEN << b >>
                            ELSE IF pause_run = << >> THEN << >>
                            ELSE Append(pause_run, b)
                   IN  IF Prefix(t, PauseSeq) \/ Prefix(t, CtrlPauseSeq)
                       THEN t
                       ELSE << >>
        /\ events' = c.events
        /\ held' = Replay(held, c.events)

ScanByte == \E b \in Bytes : Tick("byte", b)

ScanError == \E b \in Bytes : Tick("error", b)

ScanNoData == Tick("none", 0)

\* matrix_init(): the matrix is zeroed; the static state of matrix_scan and
\* is_modified are not touched
MatrixInit ==
    /\ matrix' = ZeroMatrix
    /\ last' = "matrix_init"
    /\ clear_keyboard_calls' = 0
    /\ led_set_calls' = 0
    /\ seq' = << >>
    /\ matrix0' = ZeroMatrix
    /\ prev' = << >>
    /\ pause_run' = IF state = "INIT" THEN << >> ELSE pause_run
    /\ events' = << << "clear", 0 >> >>
    /\ held' = { }
    /\ UNCHANGED << is_modified, state, code, ps2_error, rx >>

\* the public matrix_clear()
MatrixClear ==
    /\ matrix' = matrix_clear(Call).matrix
    /\ last' = "matrix_clear"
    /\ clear_keyboard_calls' = 0
    /\ led_set_calls' = 0
    /\ seq' = << >>
    /\ matrix0' = ZeroMatrix
    /\ prev' = << >>
    /\ pause_run' = IF state = "INIT" THEN << >> ELSE pause_run
    /\ events' = matrix_clear(Call).events
    /\ held' = Replay(held, matrix_clear(Call).events)
    /\ UNCHANGED << is_modified, state, code, ps2_error, rx >>

Next == ScanByte \/ ScanError \/ ScanNoData \/ MatrixInit \/ MatrixClear

Spec == Init /\ [][Next]_vars

TypeOK ==
    /\ matrix \in [0 .. (MATRIX_ROWS - 1) -> 0 .. 255]
    /\ is_modified \in BOOLEAN
    /\ state \in States
    /\ code \in 0 .. 255
    /\ ps2_error \in BOOLEAN
    /\ rx \in {"byte", "error", "none"}
    /\ clear_keyboard_calls \in 0 .. 1
    /\ led_set_calls \in 0 .. 1
    /\ last \in {"matrix_init", "matrix_scan", "matrix_clear"}
    /\ Len(seq) <= MaxSeq
    /\ Len(prev) <= MaxSeq
    /\ Len(pause_run) <= Len(PauseSeq)
    /\ Len(events) <= 2
    /\ held \subseteq 0 .. 255

(***************************************************************************)
(* Vocabulary of the properties.                                           *)
(***************************************************************************)
IsOn(k) == matrix_is_on(matrix, ROW(k), COL(k))

\* the bit as it was before the first byte of seq
WasOn(k) == matrix_is_on(matrix0, ROW(k), COL(k))

\* matrix m with the bit of coordinate k set to 0
Without(m, k) ==
    IF matrix_is_on(m, ROW(k), COL(k))
    THEN [m EXCEPT ![ROW(k)] = @ - Pow2(COL(k))]
    ELSE m

\* the step is a call of matrix_scan whose transport outcome is of kind k
TickOf(k) == last' = "matrix_scan" /\ rx' = k

(***************************************************************************)
(* C1 as stated: for every byte c in 0x00..0x7F, a tick receiving c in the *)
(* idle state leaves bit c of the matrix set, and 0xF0 then c leave it     *)
(* clear.                                                                  *)
(***************************************************************************)
C1_EveryLowByteMakes ==
    \A c \in 0 .. \h7F :
        /\ seq = << c >> => IsOn(c)
        /\ seq = << \hF0, c >> => ~ IsOn(c)

(***************************************************************************)
(* C1 amended: for every byte c in 0x01..0x7F, a tick receiving c in the   *)
(* idle state leaves bit c set and the decoder idle, and the ticks         *)
(* receiving 0xF0 then c leave bit c clear.  Byte 0x00 is the overrun      *)
(* code and makes no key.                                                  *)
(***************************************************************************)
C1_PlainMakeBreak ==
    \A c \in 1 .. \h7F :
        /\ seq = << c >> => IsOn(c) /\ state = "INIT"
        /\ seq = << \hF0 >> => state = "F0"
        /\ seq = << \hF0, c >> => ~ IsOn(c) /\ state = "INIT"

C1_Witness ==
    /\ seq = << \hF0, \h7C >>
    /\ WasOn(\h7C)
    /\ ~ IsOn(\h7C)

(***************************************************************************)
(* C2: for every byte c < 0x80 other than 0x12, 0x59 and 0x7E, the ticks   *)
(* receiving 0xE0 then c from idle leave bit (c|0x80) set, and the ticks   *)
(* receiving 0xE0, 0xF0, c leave it clear.                                 *)
(***************************************************************************)
C2_ExtendedMakeBreak ==
    \A c \in (0 .. \h7F) \ {\h12, \h59, \h7E} :
        /\ seq = << \hE0, c >> => IsOn(c + \h80) /\ state = "INIT"
        /\ seq = << \hE0, \hF0, c >> => ~ IsOn(c + \h80) /\ state = "INIT"

C2_Witness ==
    /\ seq = << \hE0, \hF0, \h7C >>
    /\ WasOn(\hFC)
    /\ ~ IsOn(\hFC)

(***************************************************************************)
(* C3: the pause sequence E1 14 77 E1 F0 14 F0 77, delivered from idle one *)
(* byte per error-free tick, leaves the pause bit set when the tick of the *)
(* last byte returns; the bit is clear while the sequence is in progress,  *)
(* and the next tick clears it whatever the transport has for that tick.   *)
(***************************************************************************)
C3_PausePulse ==
    [][ /\ ProperPrefix(seq', PauseSeq) => ~ IsOn(PAUSE)'
        /\ seq' = PauseSeq => IsOn(PAUSE)' /\ state' = "INIT"
        /\ seq = PauseSeq /\ last' = "matrix_scan" => ~ IsOn(PAUSE)'
      ]_vars

C3_Witness ==
    /\ seq = PauseSeq
    /\ IsOn(PAUSE)
    /\ is_modified

(***************************************************************************)
(* C4: the control-modified pause sequence E0 7E E0 F0 7E, delivered from  *)
(* idle, leaves the pause bit set when the tick of the last byte returns,  *)
(* the next tick clears it, and no other bit of the matrix changes during  *)
(* the sequence.                                                           *)
(***************************************************************************)
C4_CtrlPausePulse ==
    [][ /\ ProperPrefix(seq', CtrlPauseSeq) =>
              /\ ~ IsOn(PAUSE)'
              /\ matrix' = Without(matrix0', PAUSE)
        /\ seq' = CtrlPauseSeq =>
              /\ IsOn(PAUSE)'
              /\ state' = "INIT"
              /\ Without(matrix', PAUSE) = Without(matrix0', PAUSE)
        /\ seq = CtrlPauseSeq /\ last' = "matrix_scan" => ~ IsOn(PAUSE)'
      ]_vars

C4_Witness ==
    /\ seq = CtrlPauseSeq
    /\ IsOn(PAUSE)
    /\ matrix0 # ZeroMatrix
    /\ ~ WasOn(PAUSE)

(***************************************************************************)
(* C5 as stated: an error-free tick receiving any byte >= 0x80 in state    *)
(* INIT, F0 or E0_F0 clears the matrix, calls clear_keyboard exactly once  *)
(* and leaves the decoder idle.                                            *)
(***************************************************************************)
C5_EveryHighByteClears ==
    [][ /\ TickOf("byte")
        /\ code' >= \h80
        /\ state \in {"INIT", "F0", "E0_F0"}
        => /\ matrix' = ZeroMatrix
           /\ clear_keyboard_calls' = 1
           /\ state' = "INIT"
      ]_vars

\* the bytes >= 0x80 that a state has a case label for
Labelled(s) ==
    CASE s = "INIT" -> {\hE0, \hF0, \hE1, \h83, \h84, \hAA, \hFC}
      [] s = "F0" -> {\h83, \h84, \hF0}
      [] s = "E0_F0" -> { }

(***************************************************************************)
(* C5 amended: an error-free tick receiving a byte >= 0x80 for which the   *)
(* state has no case label (idle: all but E0 F0 E1 83 84 AA FC; F0: all    *)
(* but 83 84 F0; E0_F0: all) clears the matrix, calls clear_keyboard       *)
(* exactly once and leaves the decoder idle; 0xF0 received in state F0     *)
(* clears the matrix and calls clear_keyboard once too, but the decoder    *)
(* stays in F0.                                                            *)
(***************************************************************************)
C5_UnexpectedHighByteClears ==
    [][ /\ TickOf("byte")
        /\ code' >= \h80
        /\ state \in {"INIT", "F0", "E0_F0"}
        => /\ code' \notin Labelled(state) =>
                 /\ matrix' = ZeroMatrix
                 /\ clear_keyboard_calls' = 1
                 /\ led_set_calls' = 0
                 /\ state' = "INIT"
           /\ state = "F0" /\ code' = \hF0 =>
                 /\ matrix' = ZeroMatrix
                 /\ clear_keyboard_calls' = 1
                 /\ led_set_calls' = 0
                 /\ state' = "F0"
      ]_vars

C5_Witness ==
    /\ seq = << \hE0, \hF0, \h80 >>
    /\ matrix0 # ZeroMatrix
    /\ matrix = ZeroMatrix
    /\ clear_keyboard_calls = 1
    /\ state = "INIT"

(***************************************************************************)
(* C6: whatever the matrix holds, an error-free tick receiving 0x00 in the *)
(* idle state leaves every row zero, calls clear_keyboard exactly once and *)
(* leaves the decoder idle.                                                *)
(***************************************************************************)
C6_OverrunClears ==
    seq = << \h00 >> =>
        /\ \A i \in 0 .. (MATRIX_ROWS - 1) : matrix[i] = 0
        /\ clear_keyboard_calls = 1
        /\ state = "INIT"

C6_Witness ==
    /\ seq = << \h00 >>
    /\ SumRows(matrix0, 0) = MaxKeys
    /\ matrix = ZeroMatrix

(***************************************************************************)
(* C7: a tick for which the transport has no byte leaves the decoder state *)
(* as it was, changes no bit of the matrix other than releasing the pause  *)
(* key, and calls no collaborator.                                         *)
(***************************************************************************)
C7_NoDataNoProgress ==
    [][ TickOf("none")
        => /\ state' = state
           /\ matrix' = Without(matrix, PAUSE)
           /\ clear_keyboard_calls' = 0
           /\ led_set_calls' = 0
      ]_vars

C7_Witness ==
    /\ last = "matrix_scan"
    /\ rx = "none"
    /\ state = "E1_14_77_E1_F0"
    /\ matrix # ZeroMatrix

(***************************************************************************)
(* C8: a tick whose byte arrives with the error flag raised discards the   *)
(* byte: the decoder state is as before, no bit of the matrix changes      *)
(* other than the release of the pause key, and neither clear_keyboard nor *)
(* led_set is called.                                                      *)
(***************************************************************************)
C8_ErrorByteDiscarded ==
    [][ TickOf("error")
        => /\ ps2_error'
           /\ state' = state
           /\ matrix' = Without(matrix, PAUSE)
           /\ clear_keyboard_calls' = 0
           /\ led_set_calls' = 0
      ]_vars

C8_Witness ==
    /\ last = "matrix_scan"
    /\ rx = "error"
    /\ code = \hF0
    /\ state = "E0"
    /\ matrix # ZeroMatrix

(***************************************************************************)
(* C9: at the return of every tick, is_modified is true if and only if the *)
(* matrix at the end of the tick differs from the matrix at its start.     *)
(***************************************************************************)
C9_ModifiedIffChanged ==
    [][ last' = "matrix_scan" => (is_modified' <=> matrix' # matrix) ]_vars

AbsorbedSeqs ==
    { << \hE0, \h12 >>, << \hE0, \h59 >>,
      << \hE0, \hF0, \h12 >>, << \hE0, \hF0, \h59 >> }

(***************************************************************************)
(* C10 as stated: each of E0 12, E0 59, E0 F0 12 and E0 F0 59, delivered   *)
(* from idle, leaves every bit of the matrix as it was before its first    *)
(* byte, calls no collaborator and ends with the decoder idle.             *)
(***************************************************************************)
C10_AbsorbedLeavesMatrix ==
    /\ seq \in AbsorbedSeqs => matrix = matrix0 /\ state = "INIT"
    /\ (\E t \in AbsorbedSeqs : seq = t \/ ProperPrefix(seq, t)) =>
            clear_keyboard_calls = 0 /\ led_set_calls = 0

(***************************************************************************)
(* C10 amended: each of E0 12, E0 59, E0 F0 12 and E0 F0 59, delivered     *)
(* from idle, leaves every bit of the matrix other than the pause bit as   *)
(* it was before its first byte (the pause bit is clear afterwards), calls *)
(* no collaborator and ends with the decoder idle.                         *)
(***************************************************************************)
C10_AbsorbedLeavesKeys ==
    /\ seq \in AbsorbedSeqs =>
            /\ matrix = Without(matrix0, PAUSE)
            /\ state = "INIT"
    /\ (\E t \in AbsorbedSeqs : seq = t \/ ProperPrefix(seq, t)) =>
            clear_keyboard_calls = 0 /\ led_set_calls = 0

C10_Witness ==
    /\ seq = << \hE0, \hF0, \h12 >>
    /\ matrix0 # ZeroMatrix
    /\ matrix = matrix0

(***************************************************************************)
(* C11: after matrix_init, called at any point, every row of the matrix is *)
(* zero and the decoder is idle.                                           *)
(***************************************************************************)
C11_InitResetsDecoder ==
    last = "matrix_init" => matrix = ZeroMatrix /\ state = "INIT"

(***************************************************************************)
(* C12: matrix_key_count, summed in a uint8_t, equals the number of        *)
(* coordinates whose bit is on; it cannot wrap, because the coordinates    *)
(* 0x00, 0x92 and 0xD9 are never on; after matrix_clear it is 0.           *)
(***************************************************************************)
C12_KeyCountExact ==
    /\ matrix_key_count(matrix) = Cardinality({k \in 0 .. 255 : IsOn(k)})
    /\ ~ IsOn(\h00) /\ ~ IsOn(\h92) /\ ~ IsOn(\hD9)
    /\ last = "matrix_clear" => matrix_key_count(matrix) = 0

C12_Witness ==
    /\ matrix_key_count(matrix) = MaxKeys
    /\ matrix[0] # 0
    /\ matrix[MATRIX_ROWS - 1] # 0

(***************************************************************************)
(* C13: when the bytes of a make or a break of one key (c, E0 c, F0 c,     *)
(* E0 F0 c) are delivered from idle a second time right after the first,   *)
(* no tick of the second delivery changes the matrix or sets is_modified:  *)
(* the matrix stays what the first delivery left.                          *)
(***************************************************************************)
C13_MakeBreakIdempotent ==
    prev # << >> /\ KeySeq(prev) =>
        /\ matrix = matrix0
        /\ ~ is_modified
        /\ seq = prev => state = "INIT"

C13_Witness ==
    /\ seq = << \hE0, \h7C >>
    /\ prev = seq
    /\ IsOn(\hFC)

\* the step is an error-free tick receiving 0xAA or 0xFC in the idle state
SelfTestTick ==
    /\ TickOf("byte")
    /\ state = "INIT"
    /\ code' \in {\hAA, \hFC}

(***************************************************************************)
(* C14 as stated: an error-free tick receiving 0xAA or 0xFC in the idle    *)
(* state calls led_set exactly once, changes no bit of the matrix, does    *)
(* not call clear_keyboard and leaves the decoder idle; no other tick      *)
(* calls led_set.                                                          *)
(***************************************************************************)
C14_SelfTestLeavesMatrix ==
    [][ /\ SelfTestTick =>
              /\ led_set_calls' = 1
              /\ matrix' = matrix
              /\ clear_keyboard_calls' = 0
              /\ state' = "INIT"
        /\ led_set_calls' # 0 => SelfTestTick
      ]_vars

(***************************************************************************)
(* C14 amended: an error-free tick receiving 0xAA or 0xFC in the idle      *)
(* state calls led_set exactly once, changes no bit of the matrix other    *)
(* than releasing the pause key, does not call clear_keyboard and leaves   *)
(* the decoder idle; no other step calls led_set.                          *)
(***************************************************************************)
C14_SelfTestLedSync ==
    [][ /\ SelfTestTick =>
              /\ led_set_calls' = 1
              /\ matrix' = Without(matrix, PAUSE)
              /\ clear_keyboard_calls' = 0
              /\ state' = "INIT"
        /\ led_set_calls' # 0 => SelfTestTick
      ]_vars

C14_Witness ==
    /\ seq = << \hFC >>
    /\ led_set_calls = 1
    /\ matrix # ZeroMatrix
    /\ matrix = matrix0

(***************************************************************************)
(* C15: from idle, 0x84 and E0 7C both set the PrintScreen bit (0xFC) and  *)
(* F0 84 and E0 F0 7C both clear it, whichever of the two set it; 0x83     *)
(* sets and F0 83 clears the F7 bit (0x83); none of these calls            *)
(* clear_keyboard.                                                         *)
(***************************************************************************)
C15_PrintScreenAndF7 ==
    /\ seq \in { << \h84 >>, << \hE0, \h7C >> } =>
            IsOn(PRINT_SCREEN) /\ state = "INIT"
    /\ seq \in { << \hF0, \h84 >>, << \hE0, \hF0, \h7C >> } =>
            ~ IsOn(PRINT_SCREEN) /\ state = "INIT"
    /\ seq = << \h83 >> => IsOn(F7) /\ state = "INIT"
    /\ seq = << \hF0, \h83 >> => ~ IsOn(F7) /\ state = "INIT"
    /\ seq \in { << \h84 >>, << \hE0, \h7C >>, << \hF0, \h84 >>,
                 << \hE0, \hF0, \h7C >>, << \h83 >>, << \hF0, \h83 >> } =>
            /\ clear_keyboard_calls = 0
            /\ Without(Without(Without(matrix, PRINT_SCREEN), F7), PAUSE)
                  = Without(Without(Without(matrix0, PRINT_SCREEN), F7), PAUSE)

C15_Witness ==
    /\ seq = << \hF0, \h84 >>
    /\ WasOn(PRINT_SCREEN)
    /\ WasOn(F7)
    /\ ~ IsOn(PRINT_SCREEN)
    /\ IsOn(F7)

PauseStates ==
    { "E1", "E1_14", "E1_14_77", "E1_14_77_E1", "E1_14_77_E1_F0",
      "E1_14_77_E1_F0_14", "E1_14_77_E1_F0_14_F0",
      "E0_7E", "E0_7E_E0", "E0_7E_E0_F0" }

\* the one byte that continues the pause sequence from state s: the byte
\* that extends the bytes in the name of s to a prefix of the sequence
Expected(s) ==
    CASE s = "E1" -> PauseSeq[2]
      [] s = "E1_14" -> PauseSeq[3]
      [] s = "E1_14_77" -> PauseSeq[4]
      [] s = "E1_14_77_E1" -> PauseSeq[5]
      [] s = "E1_14_77_E1_F0" -> PauseSeq[6]
      [] s = "E1_14_77_E1_F0_14" -> PauseSeq[7]
      [] s = "E1_14_77_E1_F0_14_F0" -> PauseSeq[8]
      [] s = "E0_7E" -> CtrlPauseSeq[3]
      [] s = "E0_7E_E0" -> CtrlPauseSeq[4]
      [] s = "E0_7E_E0_F0" -> CtrlPauseSeq[5]

(***************************************************************************)
(* C17: in each of the ten states of the two pause sequences, an           *)
(* error-free tick receiving a byte other than the expected one leaves the *)
(* decoder idle, processes no make, break or clear (the byte is not taken  *)
(* as an idle-state byte), and calls neither clear_keyboard nor led_set.   *)
(***************************************************************************)
C17_PauseMismatchAborts ==
    [][ /\ TickOf("byte")
        /\ state \in PauseStates
        /\ code' # Expected(state)
        => /\ state' = "INIT"
           /\ events' = << >>
           /\ matrix' = matrix
           /\ ~ is_modified'
           /\ clear_keyboard_calls' = 0
           /\ led_set_calls' = 0
      ]_vars

C17_Witness ==
    /\ seq = << \hE1, \h14, \h77, \hE1, \h00 >>
    /\ state = "INIT"
    /\ matrix # ZeroMatrix
    /\ matrix = matrix0
    /\ clear_keyboard_calls = 0

\* the coordinates of the make and break events of es
KeyEvents(es) ==
    { es[i][2] : i \in { j \in 1 .. Len(es) : es[j][1] \in {"make", "break"} } }

\* the op of the last make or break event for k in es ("none" without one)
RECURSIVE LastOp(_, _)
LastOp(es, k) ==
    IF es = << >> THEN "none"
    ELSE LET e == es[Len(es)]
         IN  IF e[1] \in {"make", "break"} /\ e[2] = k
             THEN e[1]
             ELSE LastOp(SubSeq(es, 1, Len(es) - 1), k)

(***************************************************************************)
(* C18 as stated: bit k is set iff a make event for k has been processed   *)
(* more recently than any break event for k, over a history that includes  *)
(* clears.  If that holds before and after a step, then the step leaves    *)
(* bit k set iff its last make or break event for k is a make, or it has   *)
(* no such event and bit k was set before.                                 *)
(***************************************************************************)
C18_SetIffMakeAfterBreak ==
    [][ \A k \in 0 .. 255 :
            IsOn(k)' <=> \/ LastOp(events', k) = "make"
                         \/ LastOp(events', k) = "none" /\ IsOn(k)
      ]_vars

(***************************************************************************)
(* C18 amended: bit k is set iff a make event for k has been processed     *)
(* more recently than any break event for k and than any clear of the      *)
(* whole matrix (the clear of an overrun or protocol violation tick, of    *)
(* matrix_clear and of matrix_init), which breaks every coordinate.        *)
(***************************************************************************)
C18_SetIffMakeAfterBreakOrClear ==
    \A k \in 0 .. 255 : IsOn(k) <=> k \in held

C18_Witness ==
    /\ events = << << "break", PAUSE >>, << "make", \h7E >> >>
    /\ held = {\h7C, \h7E}
    /\ IsOn(\h7C)
    /\ IsOn(\h7E)
    /\ ~ IsOn(PAUSE)

\* the coordinates an accepted extended sequence E0 c or E0 F0 c, c < 0x80,
\* makes or breaks
ExtCoords ==
    UNION { KeyEvents(scan_E0(Call, b).events)
                \cup KeyEvents(scan_E0_F0(Call, b).events) :
            b \in { x \in Bytes : x < \h80 } }

\* the coordinates a single idle-state byte or F0 followed by a byte makes
\* or breaks
PlainCoords ==
    UNION { KeyEvents(scan_INIT(Call, b).events)
                \cup KeyEvents(scan_F0(Call, b).events) :
            b \in Bytes }

(***************************************************************************)
(* C19 as stated: no matrix coordinate that an accepted extended sequence  *)
(* (E0 c or E0 F0 c, c < 0x80) makes or breaks is also made or broken by   *)
(* an accepted non-extended sequence (one idle-state byte, or F0 and a     *)
(* byte).                                                                  *)
(***************************************************************************)
C19_CodeSpacesDisjoint ==
    ExtCoords \cap PlainCoords = { }

(***************************************************************************)
(* C19 amended: the extended sequences make and break coordinates          *)
(* 0x80..0xFF only, the non-extended ones coordinates 0x00..0x7F and the   *)
(* two coordinates 0x83 (F7) and 0xFC (PrintScreen), and these two are the *)
(* only coordinates both kinds of sequence reach: 0x83 by byte 0x83 and by *)
(* E0 03, 0xFC by byte 0x84 and by E0 7C.                                  *)
(***************************************************************************)
C19_CodeSpacesShareTwo ==
    /\ ExtCoords \cap PlainCoords = {F7, PRINT_SCREEN}
    /\ \A k \in ExtCoords : k >= \h80
    /\ \A k \in PlainCoords \ {F7, PRINT_SCREEN} : k < \h80
    /\ Len(seq) \in {2, 3} /\ seq[1] = \hE0 /\ state = "INIT" =>
            KeyEvents(events) \subseteq ExtCoords
    /\ Len(seq) = 1 \/ (Len(seq) = 2 /\ seq[1] = \hF0) =>
            KeyEvents(events) \subseteq PlainCoords \cup {PAUSE}
    /\ seq = << \hE0, \h03 >> => IsOn(F7)
    /\ seq = << \hF0, \h83 >> => ~ IsOn(F7)

C19_Witness ==
    /\ seq = << \hE0, \h03 >>
    /\ events = << << "make", F7 >> >>
    /\ ~ WasOn(F7)
    /\ IsOn(F7)

(***************************************************************************)
(* C20: the pause bit is set when a tick returns only if the most recent   *)
(* error-free bytes consumed, ending with that tick's byte, were exactly   *)
(* E1 14 77 E1 F0 14 F0 77 or E0 7E E0 F0 7E, the first of them consumed   *)
(* in the idle state; the pause bit is never set at the return of two      *)
(* consecutive ticks; E0 7E alone does not set it.                         *)
(***************************************************************************)
C20_PauseOnlyBySequence ==
    /\ [](IsOn(PAUSE) =>
            /\ last = "matrix_scan"
            /\ rx = "byte"
            /\ pause_run \in {PauseSeq, CtrlPauseSeq}
            /\ code = pause_run[Len(pause_run)]
            /\ state = "INIT")
    /\ [](seq = << \hE0, \h7E >> => ~ IsOn(PAUSE) /\ state = "E0_7E")
    /\ [][ IsOn(PAUSE) /\ last' = "matrix_scan" => ~ IsOn(PAUSE)' ]_vars

C20_Witness ==
    /\ IsOn(PAUSE)
    /\ pause_run = PauseSeq
    /\ seq = << >>
    /\ rx = "byte"
    /\ is_modified

====
